---- MODULE Spec2Model ----
(***************************************************************************)
(* Model of homework.py: a bot that polls the homework-review API on a     *)
(* fixed interval and forwards the status of the latest homework to a      *)
(* chat, with de-duplicated error notifications.                           *)
(*                                                                         *)
(* main() is modelled statement by statement (pc), each called function is *)
(* an operator that returns either a value or the exception it raises.     *)
(* Texts are sequences of string tokens; str() of an exception and the     *)
(* f-string formatting are modelled by what they produce.                  *)
(***************************************************************************)
EXTENDS Integers, Sequences, FiniteSets, TLC

VARIABLES
    env,                \* the three environment values read at import
    pc,                 \* position of main()
    now,                \* the wall clock, int(time.time())
    current_timestamp,  \* the poll cursor of main()
    cache_errors,       \* the module-level list of notified error texts
    response,           \* local of main(): result of get_api_answer
    homework,           \* local of main(): result of check_response
    message,            \* local of main(): text to send
    raised,             \* the exception in flight, if any
    iter,               \* number of completed loop iterations
    it,                 \* what the current iteration has done so far
    run,                \* the current run of consecutive identical failures
    stale,              \* texts notified earlier and cleared from the cache since
    errorLog            \* error texts sent since the last successful format

vars == <<env, pc, now, current_timestamp, cache_errors, response, homework,
          message, raised, iter, it, run, stale, errorLog>>

-----------------------------------------------------------------------------
(* Bounds of the model *)

MaxIter == 3            \* loop iterations explored
StartTime == 100000     \* clock value at process start

-----------------------------------------------------------------------------
(* Module-level constants of homework.py *)

TELEGRAM_RETRY_TIME == 600
LAST_HOMEWORK_LIST_ID == 0
HTTP_OK == 200

None == "None"

HOMEWORK_VERDICTS ==
    [approved |-> "no remarks", reviewing |-> "under review",
     rejected |-> "has remarks"]

-----------------------------------------------------------------------------
(* Python values *)

Range(s) == {s[i] : i \in 1..Len(s)}

NoException == [type |-> "none", args |-> <<>>]
Exception(type, args) == [type |-> type, args |-> args]

\* str(error): KeyError shows the repr of its argument, the others the text
Str(error) ==
    IF error.type = "KeyError" THEN <<"'">> \o error.args \o <<"'">>
    ELSE error.args

Returned(value) == [ok |-> TRUE, val |-> value, err |-> NoException]
Raised(error) == [ok |-> FALSE, val |-> None, err |-> error]

\* dict.get(key, default)
Get(dict, key, default) == IF key \in DOMAIN dict THEN dict[key] ELSE default

-----------------------------------------------------------------------------
(* The environment: what the API and the bot may answer *)

EnvValues == {None, "", "secret"}

Names == {"X"}
Statuses == {"approved", "reviewing", "rejected", "unknown"}
Comments == {"fix it"}

\* a homework record: a mapping with any subset of the three fields
Records ==
    {[k \in ks |-> CASE k = "homework_name" -> n
                     [] k = "status" -> s
                     [] OTHER -> c] :
        ks \in SUBSET {"homework_name", "status", "reviewer_comment"},
        n \in Names, s \in Statuses, c \in Comments}

OlderRecords == {[homework_name |-> "Y", status |-> "rejected"]}

\* the lists of the model: empty, one record, or a complete record
\* followed by an older one
HomeworkLists ==
    {<<>>} \cup {<<r>> : r \in Records}
           \cup {<<r, o>> : r \in {c \in Records : "reviewer_comment" \in DOMAIN c
                                       /\ "homework_name" \in DOMAIN c
                                       /\ "status" \in DOMAIN c},
                            o \in OlderRecords}

\* a JSON value of the homeworks key: an array, or something else
List(items) == [type |-> "list", items |-> items]
NotAList == [type |-> "str", items |-> <<>>]

\* decoded JSON bodies: a non-mapping, or a mapping with some of the keys
Bodies ==
    {[json |-> "array"]}
    \cup {[json |-> "object", homeworks |-> h, current_date |-> "1000"] :
            h \in {List(l) : l \in HomeworkLists} \cup {NotAList}}
    \cup {[json |-> "object", homeworks |-> List(<<>>)],
          [json |-> "object", current_date |-> "1000"],
          [json |-> "object"]}

StatusCodes == {HTTP_OK, 404, 503}

\* what requests.get and response.json() can do
HttpReplies ==
    {[net |-> "unreachable"]}
    \cup {[net |-> "ok", status_code |-> c] : c \in StatusCodes \ {HTTP_OK}}
    \cup {[net |-> "ok", status_code |-> HTTP_OK, json |-> "invalid"]}
    \cup {[net |-> "ok", status_code |-> HTTP_OK, json |-> "valid",
           body |-> b] : b \in Bodies}

\* what bot.send_message can do
BotReplies == {"delivered", "failed"}

-----------------------------------------------------------------------------
(* exceptions.py: which exceptions the two "except" clauses catch *)

\* except ApiResponseException: transport failures, not the status error
IsApiResponseException(error) == error.type = "ConnectionError"

\* except SendMessageException: transport failures of the bot
IsSendMessageException(error) == error.type = "TelegramError"

-----------------------------------------------------------------------------
(* The functions of homework.py *)

\* bot.send_message(TELEGRAM_CHAT_ID, message)
BotSendMessage(reply) ==
    IF reply = "delivered" THEN Returned(None)
    ELSE Raised(Exception("TelegramError", <<"bot transport failure">>))

\* (variant: the failure is logged and not raised again)
send_message_Swallow(reply, text) == Returned(None)

\* (variant: the raise stands after the try statement)
send_message_AlwaysRaises(reply, text) ==
    Raised(Exception("SendMessageException",
                     <<"failed to send the message to the user">>))

send_message(reply, text) ==
    LET r == BotSendMessage(reply) IN
    IF r.ok THEN Returned(None)
    ELSE IF IsSendMessageException(r.err)
         THEN Raised(Exception("SendMessageException",
                               <<"failed to send the message to the user">>))
         ELSE r

\* requests.get(...) followed by the body of the try block
RequestsGet(reply) ==
    IF reply.net = "unreachable"
    THEN Raised(Exception("ConnectionError", <<"connection refused">>))
    ELSE Returned(reply)

ResponseJson(reply) ==
    IF reply.json = "valid" THEN Returned(reply.body)
    ELSE Raised(Exception("ValueError", <<"invalid json">>))

\* (variant: the request always asks from the current time)
FromDate_Now(ts, clock) == clock

\* timestamp = current_timestamp or int(time.time())
FromDate(ts, clock) == IF ts # 0 THEN ts ELSE clock

GetApiAnswerTry(reply) ==
    LET r == RequestsGet(reply) IN
    IF ~r.ok THEN r
    ELSE IF r.val.status_code = HTTP_OK THEN ResponseJson(r.val)
    ELSE Raised(Exception("ApiResponseStatusException",
                  <<"endpoint error, status code - ",
                    ToString(r.val.status_code)>>))

\* get_api_answer: its result and the from_date it requested
get_api_answer(ts, clock, reply) ==
    LET r == GetApiAnswerTry(reply) IN
    [from_date |-> FromDate(ts, clock),
     res |-> IF r.ok THEN r
             ELSE IF IsApiResponseException(r.err)
                  THEN Raised(Exception("ApiResponseException",
                         <<"request failed, the API endpoint is unreachable">>))
                  ELSE r]

IsDict(resp) == resp.json = "object"
IsList(v) == v.type = "list"

\* (variant: the type of the homeworks value is not tested)
check_response_NoListCheck(resp) ==
    IF ~IsDict(resp)
    THEN Raised(Exception("TypeError",
                  <<"the function takes a dict, got - ", resp.json>>))
    ELSE IF \A key \in {"homeworks", "current_date"} : key \in DOMAIN resp
         THEN Returned(Get(resp, "homeworks", None))
         ELSE Raised(Exception("KeyError",
                  <<"expected keys are missing in the API response">>))

check_response(resp) ==
    IF ~IsDict(resp)
    THEN Raised(Exception("TypeError",
                  <<"the function takes a dict, got - ", resp.json>>))
    ELSE IF /\ \A key \in {"homeworks", "current_date"} : key \in DOMAIN resp
            /\ IsList(Get(resp, "homeworks", None))
         THEN Returned(Get(resp, "homeworks", None))
         ELSE Raised(Exception("KeyError",
                  <<"expected keys are missing in the API response">>))

\* homework[LAST_HOMEWORK_LIST_ID]
GetItem(list, index) ==
    IF index + 1 \in 1..Len(list.items) THEN Returned(list.items[index + 1])
    ELSE Raised(Exception("IndexError", <<"list index out of range">>))

\* datetime.now().strftime("%d-%m-%Y %H:%M"): the clock to the minute
Strftime(clock) == ToString(clock \div 60)

\* (variant: the successful format leaves the cache alone)
ClearedCache_Kept(cache) == cache

\* the cache after a successful parse_status: cache_errors.clear()
ClearedCache(cache) == <<>>

\* (variant: the verdict is looked up without the membership test)
parse_status_Unchecked(record, cache, clock) ==
    IF "homework_name" \notin DOMAIN record
    THEN [res |-> Raised(Exception("KeyError",
                    <<"key homework_name is missing in the API response">>)),
          cache |-> cache]
    ELSE [res |-> Returned(<<Strftime(clock), "Work - ",
                    Get(record, "homework_name", None), "Verdict - ",
                    Get(HOMEWORK_VERDICTS, Get(record, "status", None), None),
                    "Comment - ",
                    Get(record, "reviewer_comment", "no comment")>>),
          cache |-> ClearedCache(cache)]

\* (variant: the comment is read under a key the record never has)
parse_status_CommentDropped(record, cache, clock) ==
    IF "homework_name" \notin DOMAIN record
    THEN [res |-> Raised(Exception("KeyError",
                    <<"key homework_name is missing in the API response">>)),
          cache |-> cache]
    ELSE LET homework_status == Get(record, "status", None) IN
         IF homework_status \notin DOMAIN HOMEWORK_VERDICTS
         THEN [res |-> Raised(Exception("KeyError",
                         <<"undocumented status in the API response - ",
                           homework_status>>)),
               cache |-> cache]
         ELSE [res |-> Returned(<<Strftime(clock), "Work - ",
                         Get(record, "homework_name", None), "Verdict - ",
                         HOMEWORK_VERDICTS[homework_status],
                         "Comment - ", Get(record, "comment", "no comment")>>),
               cache |-> ClearedCache(cache)]

\* parse_status returns its result and the cache it leaves behind
parse_status(record, cache, clock) ==
    IF "homework_name" \notin DOMAIN record
    THEN [res |-> Raised(Exception("KeyError",
                    <<"key homework_name is missing in the API response">>)),
          cache |-> cache]
    ELSE LET homework_name == Get(record, "homework_name", None)
             reviewer_comment == Get(record, "reviewer_comment", "no comment")
             homework_status == Get(record, "status", None)
         IN  IF homework_status \notin DOMAIN HOMEWORK_VERDICTS
             THEN [res |-> Raised(Exception("KeyError",
                             <<"undocumented status in the API response - ",
                               homework_status>>)),
                   cache |-> cache]
             ELSE [res |-> Returned(<<Strftime(clock), "Work - ",
                             homework_name, "Verdict - ",
                             HOMEWORK_VERDICTS[homework_status],
                             "Comment - ", reviewer_comment>>),
                   cache |-> ClearedCache(cache)]

\* (variant: the chat id is not checked)
check_tokens_NoChatId(e) ==
    IF e.PRACTICUM_TOKEN \in {None, ""} THEN FALSE
    ELSE IF e.TELEGRAM_TOKEN \in {None, ""} THEN FALSE
    ELSE TRUE

check_tokens(e) ==
    IF e.PRACTICUM_TOKEN \in {None, ""} THEN FALSE
    ELSE IF e.TELEGRAM_TOKEN \in {None, ""} THEN FALSE
    ELSE IF e.TELEGRAM_CHAT_ID \in {None, ""} THEN FALSE
    ELSE TRUE

\* (variant: the cache is not consulted)
NotInCache_Always(text, cache) == TRUE

\* "message not in cache_errors"
NotInCache(text, cache) == text \notin Range(cache)

\* (variant: the sent text is not recorded)
send_error_message_NoAppend(text, cache, reply) ==
    IF NotInCache(text, cache)
    THEN [res |-> send_message(reply, text), cache |-> cache, tried |-> TRUE]
    ELSE [res |-> Returned(None), cache |-> cache, tried |-> FALSE]

\* (variant: the text is recorded before the send)
send_error_message_AppendFirst(text, cache, reply) ==
    IF NotInCache(text, cache)
    THEN [res |-> send_message(reply, text), cache |-> Append(cache, text),
          tried |-> TRUE]
    ELSE [res |-> Returned(None), cache |-> cache, tried |-> FALSE]

\* send_error_message: the result, the cache it leaves and whether it sent
send_error_message(text, cache, reply) ==
    IF NotInCache(text, cache)
    THEN LET r == send_message(reply, text) IN
         IF r.ok THEN [res |-> r, cache |-> Append(cache, text), tried |-> TRUE]
         ELSE [res |-> r, cache |-> cache, tried |-> TRUE]
    ELSE [res |-> Returned(None), cache |-> cache, tried |-> FALSE]

\* (variant: the bare error text is reported)
FailureText_Raw(error) == Str(error)

\* f'program failure: {error}'
FailureText(error) == <<"program failure: ">> \o Str(error)

-----------------------------------------------------------------------------
(* main() *)

NoResponse == [json |-> "none"]
NoHomework == List(<<>>)

\* bookkeeping of one loop iteration, reset when the iteration starts
NewIteration(cursor, cache) ==
    [fetches |-> 0, from_date |-> 0, done |-> {}, selected |-> <<>>,
     statusTried |-> 0, statusDelivered |-> 0,
     notifyCalls |-> 0, notifyText |-> <<>>,
     errorTried |-> 0, errorDelivered |-> 0,
     sleeps |-> 0, slept |-> 0,
     failedAt |-> "none", failure |-> NoException, wasStale |-> FALSE,
     cursor0 |-> cursor, cache0 |-> cache,
     reply |-> [net |-> "none"],
     prevOutcome |-> "none", prev_from_date |-> 0, lastOk |-> 0]

\* the steps of the try block
Steps == {"fetch", "validate", "select", "format", "send"}

\* how an iteration went: every step done, the empty list, or a failure
Outcome(i) ==
    IF i.done = Steps THEN "ok"
    ELSE IF i.failedAt = "select" THEN "empty"
    ELSE "failed"

NoRun ==
    [text |-> <<>>, failedAt |-> "none", first |-> 0, len |-> 0, sends |-> 0]

\* (variant: every exception goes to the generic clause)
ExceptClause_Generic(error) == "except Exception"

\* (variant: the silent clause also takes KeyError)
ExceptClause_KeyErrorSilenced(error) ==
    IF error.type \in {"IndexError", "KeyError"} THEN "except IndexError"
    ELSE "except Exception"

\* which except clause of main() takes the exception
ExceptClause(error) ==
    IF error.type = "IndexError" THEN "except IndexError"
    ELSE "except Exception"

Init ==
    /\ env \in [{"PRACTICUM_TOKEN", "TELEGRAM_TOKEN", "TELEGRAM_CHAT_ID"}
                    -> EnvValues]
    /\ pc = "main"
    /\ now = StartTime
    /\ current_timestamp = 0
    /\ cache_errors = <<>>
    /\ response = NoResponse
    /\ homework = NoHomework
    /\ message = <<>>
    /\ raised = NoException
    /\ iter = 0
    /\ it = NewIteration(0, <<>>)
    /\ run = NoRun
    /\ stale = {}
    /\ errorLog = <<>>

\* lines 149-151: the configuration check fails, sys.exit()
MainExit ==
    /\ pc = "main"
    /\ check_tokens(env) = FALSE
    /\ pc' = "exited"
    /\ UNCHANGED <<env, now, current_timestamp, cache_errors, response,
                   homework, message, raised, iter, it, run, stale,
                   errorLog>>

\* (variant: the cursor starts at the current time)
MainLoop_NoLookback ==
    /\ pc = "main"
    /\ check_tokens(env) # FALSE
    /\ current_timestamp' = now
    /\ it' = NewIteration(current_timestamp', cache_errors)
    /\ pc' = "get_api_answer"
    /\ UNCHANGED <<env, now, cache_errors, response, homework, message,
                   raised, iter, run, stale, errorLog>>

\* lines 149-153: the configuration check passes, the loop is entered
MainLoop ==
    /\ pc = "main"
    /\ check_tokens(env) # FALSE
    /\ current_timestamp' = now - TELEGRAM_RETRY_TIME
    /\ it' = NewIteration(current_timestamp', cache_errors)
    /\ pc' = "get_api_answer"
    /\ UNCHANGED <<env, now, cache_errors, response, homework, message,
                   raised, iter, run, stale, errorLog>>

\* lines 155-156: response = get_api_answer(current_timestamp)
GetApiAnswer ==
    /\ pc = "get_api_answer"
    /\ iter < MaxIter
    /\ \E reply \in HttpReplies :
        LET r == get_api_answer(current_timestamp, now, reply)
            fresh == NewIteration(current_timestamp, cache_errors)
        IN  /\ it' = [fresh EXCEPT
                        !.fetches = 1,
                        !.from_date = r.from_date,
                        !.done = IF r.res.ok THEN {"fetch"} ELSE {},
                        !.failedAt = IF r.res.ok THEN "none" ELSE "fetch",
                        !.failure = r.res.err,
                        !.sleeps = 0,
                        !.slept = 0,
                        !.reply = reply,
                        !.prevOutcome = it.prevOutcome,
                        !.prev_from_date = it.prev_from_date,
                        !.lastOk = it.lastOk]
            /\ IF r.res.ok
               THEN /\ response' = r.res.val
                    /\ raised' = NoException
                    /\ pc' = "check_response"
               ELSE /\ response' = NoResponse
                    /\ raised' = r.res.err
                    /\ pc' = ExceptClause(r.res.err)
    /\ homework' = NoHomework
    /\ message' = <<>>
    /\ UNCHANGED <<env, now, current_timestamp, cache_errors, iter, run,
                   stale, errorLog>>

\* line 157: homework = check_response(response)
CheckResponse ==
    /\ pc = "check_response"
    /\ LET r == check_response(response) IN
        IF r.ok
        THEN /\ homework' = r.val
             /\ it' = [it EXCEPT !.done = @ \cup {"validate"}]
             /\ pc' = "parse_status"
             /\ UNCHANGED raised
        ELSE /\ raised' = r.err
             /\ it' = [it EXCEPT !.failedAt = "validate", !.failure = r.err]
             /\ pc' = ExceptClause(r.err)
             /\ UNCHANGED homework
    /\ UNCHANGED <<env, now, current_timestamp, cache_errors, response,
                   message, iter, run, stale, errorLog>>

\* line 158: message = parse_status(homework[LAST_HOMEWORK_LIST_ID])
ParseStatus ==
    /\ pc = "parse_status"
    /\ LET item == GetItem(homework, LAST_HOMEWORK_LIST_ID) IN
        IF ~item.ok
        THEN /\ raised' = item.err
             /\ it' = [it EXCEPT !.failedAt = "select", !.failure = item.err]
             /\ pc' = ExceptClause(item.err)
             /\ UNCHANGED <<cache_errors, message, stale, errorLog>>
        ELSE LET p == parse_status(item.val, cache_errors, now) IN
             /\ cache_errors' = p.cache
             /\ IF p.res.ok
                THEN /\ message' = p.res.val
                     /\ it' = [it EXCEPT !.done = @ \cup {"select", "format"},
                                         !.selected = <<item.val>>]
                     /\ stale' = stale \cup Range(cache_errors)
                     /\ errorLog' = <<>>
                     /\ pc' = "send_message"
                     /\ UNCHANGED raised
                ELSE /\ raised' = p.res.err
                     /\ it' = [it EXCEPT !.done = @ \cup {"select"},
                                         !.selected = <<item.val>>,
                                         !.failedAt = "format",
                                         !.failure = p.res.err]
                     /\ pc' = ExceptClause(p.res.err)
                     /\ UNCHANGED <<message, stale, errorLog>>
    /\ UNCHANGED <<env, now, current_timestamp, response, homework, iter,
                   run>>

\* line 159: send_message(bot, message)
SendMessage ==
    /\ pc = "send_message"
    /\ \E reply \in BotReplies :
        LET r == send_message(reply, message)
            delivered == IF reply = "delivered" THEN 1 ELSE 0
        IN
        IF r.ok
        THEN /\ it' = [it EXCEPT !.done = @ \cup {"send"},
                                 !.statusTried = @ + 1,
                                 !.statusDelivered = @ + delivered]
             /\ pc' = "advance"
             /\ UNCHANGED raised
        ELSE /\ raised' = r.err
             /\ it' = [it EXCEPT !.statusTried = @ + 1,
                                 !.statusDelivered = @ + delivered,
                                 !.failedAt = "send",
                                 !.failure = r.err]
             /\ pc' = ExceptClause(r.err)
    /\ UNCHANGED <<env, now, current_timestamp, cache_errors, response,
                   homework, message, iter, run, stale, errorLog>>

\* (variant: the cursor is not advanced)
AdvanceCursor_Keep ==
    /\ pc = "advance"
    /\ run' = NoRun
    /\ pc' = "finally"
    /\ UNCHANGED <<env, now, current_timestamp, cache_errors, response,
                   homework, message, raised, iter, it, stale, errorLog>>

\* line 160: current_timestamp = int(time.time())
AdvanceCursor ==
    /\ pc = "advance"
    /\ current_timestamp' = now
    /\ run' = NoRun
    /\ pc' = "finally"
    /\ UNCHANGED <<env, now, cache_errors, response, homework, message,
                   raised, iter, it, stale, errorLog>>

\* lines 161-163: the empty homework list
ExceptIndexError ==
    /\ pc = "except IndexError"
    /\ message' = <<"the API response has no new statuses">>
    /\ raised' = NoException
    /\ run' = NoRun
    /\ pc' = "finally"
    /\ UNCHANGED <<env, now, current_timestamp, cache_errors, response,
                   homework, iter, it, stale, errorLog>>

\* lines 164-167: any other exception is reported through
\* send_error_message; an exception of that call leaves the handler
ExceptException ==
    /\ pc = "except Exception"
    /\ \E reply \in BotReplies :
        LET text == FailureText(raised)
            s == send_error_message(text, cache_errors, reply)
            tried == IF s.tried THEN 1 ELSE 0
            delivered == IF s.tried /\ reply = "delivered" THEN 1 ELSE 0
        IN  /\ message' = text
            /\ cache_errors' = s.cache
            /\ raised' = IF s.res.ok THEN NoException ELSE s.res.err
            /\ it' = [it EXCEPT !.notifyCalls = @ + 1,
                                !.notifyText = text,
                                !.errorTried = @ + tried,
                                !.errorDelivered = @ + delivered,
                                !.wasStale = text \in stale]
            /\ run' = IF run.text = text
                      THEN [run EXCEPT !.len = @ + 1, !.sends = @ + tried]
                      ELSE [text |-> text, failedAt |-> it.failedAt,
                            first |-> iter, len |-> 1, sends |-> tried]
            /\ stale' = IF delivered = 1 THEN stale \ {text} ELSE stale
            /\ errorLog' = IF s.tried THEN Append(errorLog, text)
                           ELSE errorLog
    /\ pc' = "finally"
    /\ UNCHANGED <<env, now, current_timestamp, response, homework, iter>>

\* (variant: the sleep sits in an else clause, not in finally)
Finally_SleepInElse ==
    /\ pc = "finally"
    /\ LET sleeps == Outcome(it) = "ok" IN
        /\ now' = IF sleeps THEN now + TELEGRAM_RETRY_TIME ELSE now
        /\ it' = [NewIteration(current_timestamp, cache_errors) EXCEPT
                    !.sleeps = IF sleeps THEN it.sleeps + 1 ELSE it.sleeps,
                    !.slept = IF sleeps THEN it.slept + TELEGRAM_RETRY_TIME
                              ELSE it.slept,
                    !.prevOutcome = Outcome(it),
                    !.prev_from_date = it.from_date,
                    !.lastOk = IF Outcome(it) = "ok" THEN now
                               ELSE it.lastOk]
    /\ iter' = iter + 1
    /\ pc' = IF raised = NoException THEN "get_api_answer" ELSE "crashed"
    /\ response' = NoResponse
    /\ homework' = NoHomework
    /\ message' = <<>>
    /\ UNCHANGED <<env, current_timestamp, cache_errors, raised, run, stale,
                   errorLog>>

\* lines 168-169: time.sleep(TELEGRAM_RETRY_TIME), then the next iteration,
\* or the exception that left the handler leaves main().  The locals are
\* assigned again before they are read, so the end of the iteration forgets
\* them; of the bookkeeping only the sleep is carried to the loop head.
\* The clock moves by the length of the sleep.
Finally ==
    /\ pc = "finally"
    /\ now' = now + TELEGRAM_RETRY_TIME
    /\ it' = [NewIteration(current_timestamp, cache_errors) EXCEPT
                !.sleeps = it.sleeps + 1,
                !.slept = it.slept + TELEGRAM_RETRY_TIME,
                !.prevOutcome = Outcome(it),
                !.prev_from_date = it.from_date,
                !.lastOk = IF Outcome(it) = "ok" THEN now ELSE it.lastOk]
    /\ iter' = iter + 1
    /\ pc' = IF raised = NoException THEN "get_api_answer" ELSE "crashed"
    /\ response' = NoResponse
    /\ homework' = NoHomework
    /\ message' = <<>>
    /\ UNCHANGED <<env, current_timestamp, cache_errors, raised, run, stale,
                   errorLog>>

Next ==
    \/ MainExit
    \/ MainLoop
    \/ GetApiAnswer
    \/ CheckResponse
    \/ ParseStatus
    \/ SendMessage
    \/ AdvanceCursor
    \/ ExceptIndexError
    \/ ExceptException
    \/ Finally

Spec == Init /\ [][Next]_vars

TypeOK ==
    /\ pc \in {"main", "exited", "get_api_answer", "check_response",
               "parse_status", "send_message", "advance",
               "except IndexError", "except Exception", "finally", "crashed"}
    /\ iter \in 0..MaxIter
    /\ cache_errors \in Seq(Seq(STRING))

-----------------------------------------------------------------------------
(* Properties *)

NoDuplicates(seq) == \A i, j \in 1..Len(seq) : seq[i] = seq[j] => i = j

AllConfigured == \A key \in DOMAIN env : env[key] \notin {None, ""}

\* C1: once the configuration check has passed the loop never terminates
\* and no exception escapes main()
C1_NoExceptionEscapesMain ==
    AllConfigured => pc \notin {"crashed", "exited"}

\* C2: with no successful format in between, every distinct error text is
\* sent once: a call with a text that is in the cache (or was sent since the
\* last successful format) sends nothing, a call with a new text sends it
C2_OneSendPerErrorText ==
    /\ [](NoDuplicates(errorLog))
    /\ [][(pc = "except Exception" /\ pc' = "finally") =>
            LET text == FailureText(raised) IN
            /\ text \in Range(cache_errors) \cup Range(errorLog) =>
                 it'.errorTried = 0 /\ errorLog' = errorLog
            /\ text \notin Range(cache_errors) \cup Range(errorLog) =>
                 it'.errorTried = 1 /\ errorLog' = Append(errorLog, text)]_vars

\* two distinct texts were sent, and a third call with a cached text sent
\* nothing
C2_Witness ==
    /\ pc = "finally"
    /\ Len(errorLog) = 2
    /\ it.notifyCalls = 1
    /\ it.errorTried = 0
    /\ it.notifyText \in Range(cache_errors)

\* C3 as stated: a failure that recurs in consecutive iterations is notified
\* at most once over those iterations, whatever step fails
C3_Original ==
    run.sends <= 1

\* C3: a failure of fetch, validation or format that recurs in consecutive
\* iterations is notified at most once over those iterations, and exactly
\* once when it has recurred since the first iteration
C3_OneNotificationPerRepeatedFailure ==
    /\ run.failedAt # "send" => run.sends <= 1
    /\ (run.len >= 1 /\ run.first = 0 /\ run.failedAt # "send") =>
            run.sends = 1

\* the endpoint answered 503 in the first two iterations at least
C3_Witness ==
    /\ run.len >= 2
    /\ run.first = 0
    /\ run.sends = 1
    /\ run.text = <<"program failure: ", "endpoint error, status code - ",
                    "503">>

\* C4: a successful format empties the cache, whatever the status send that
\* follows does, and a text notified before it is sent again when it recurs
C4_FormatClearsCache ==
    /\ [](pc \in {"send_message", "advance"} => cache_errors = <<>>)
    /\ []((pc = "except Exception" /\ it.failedAt = "send") =>
            cache_errors = <<>>)
    /\ [][(pc = "except Exception" /\ pc' = "finally"
           /\ FailureText(raised) \in stale) => it'.errorTried = 1]_vars

\* a text notified before a successful format was delivered again after it
C4_Witness ==
    /\ pc = "finally"
    /\ it.wasStale
    /\ it.errorDelivered = 1

\* C5: the cursor changes in an iteration exactly when every step of the
\* iteration succeeded, and is then the current time; otherwise the next
\* fetch uses the same from_date
C5_CursorAdvancesOnFullSuccessOnly ==
    /\ current_timestamp # it.cursor0 =>
         pc = "finally" /\ Outcome(it) = "ok" /\ current_timestamp = now
    /\ (pc = "finally" /\ Outcome(it) = "ok") =>
         current_timestamp # it.cursor0 /\ current_timestamp = now
    /\ it.fetches = 1 => it.from_date = it.cursor0
    /\ (it.fetches = 1 /\ it.prevOutcome \in {"failed", "empty"}) =>
         it.from_date = it.prev_from_date

\* a fully successful iteration after a failed one
C5_Witness ==
    /\ pc = "finally"
    /\ Outcome(it) = "ok"
    /\ it.prevOutcome = "failed"
    /\ it.from_date = it.prev_from_date
    /\ current_timestamp = now

\* C6: an iteration with an empty homework list sends nothing, does not call
\* send_error_message, leaves cache and cursor alone and goes on to the
\* sleep and the next iteration
C6_EmptyListIsSilent ==
    /\ (pc \in {"except IndexError", "finally"} /\ "validate" \in it.done
        /\ homework.items = <<>>) =>
            /\ it.failedAt = "select"
            /\ it.statusTried = 0
            /\ it.errorTried = 0
            /\ it.notifyCalls = 0
            /\ cache_errors = it.cache0
            /\ current_timestamp = it.cursor0
            /\ (pc = "finally" => raised = NoException)
    /\ it.prevOutcome = "empty" => pc # "crashed" /\ it.sleeps + it.fetches = 1

\* the empty list arrived while the cache held a text
C6_Witness ==
    /\ pc = "finally"
    /\ "validate" \in it.done
    /\ homework.items = <<>>
    /\ cache_errors # <<>>

\* C7: check_tokens is false exactly when one of the three values is absent
\* or empty, and then main exits without a fetch, a message or a sleep;
\* otherwise the loop is entered
C7_MissingConfigurationExits ==
    /\ check_tokens(env) = AllConfigured
    /\ ~AllConfigured =>
         /\ pc \in {"main", "exited"}
         /\ it.fetches = 0 /\ it.sleeps = 0 /\ iter = 0
         /\ it.statusTried = 0 /\ it.errorTried = 0
         /\ now = StartTime
    /\ AllConfigured => pc # "exited"

\* only the chat id is empty and main has exited
C7_Witness ==
    /\ pc = "exited"
    /\ env.PRACTICUM_TOKEN = "secret"
    /\ env.TELEGRAM_TOKEN = "secret"
    /\ env.TELEGRAM_CHAT_ID = ""

\* C8: every iteration ends with exactly one sleep of the poll interval, on
\* every path: there is one sleep between two fetches
C8_OneSleepPerIteration ==
    /\ it.sleeps <= 1
    /\ (pc \in {"get_api_answer", "crashed"} /\ iter > 0) =>
         it.sleeps = 1 /\ it.slept = TELEGRAM_RETRY_TIME
    /\ pc \in {"check_response", "parse_status", "send_message", "advance",
               "except IndexError", "except Exception", "finally"} =>
         it.sleeps = 0 /\ it.fetches = 1

\* the loop head after a failed iteration and its sleep
C8_Witness ==
    /\ pc = "get_api_answer"
    /\ it.prevOutcome = "failed"
    /\ it.sleeps = 1

\* C9: a failure of fetch, validation, format or the status send reaches
\* send_error_message as "program failure: {error}", which sends it unless
\* the cache holds it
C9_FailureIsReported ==
    /\ (pc = "finally" /\ it.failedAt \in {"fetch", "validate", "format",
                                           "send"}) =>
         /\ it.notifyCalls = 1
         /\ it.notifyText = <<"program failure: ">> \o Str(it.failure)
         /\ \/ it.errorTried = 1
            \/ it.errorTried = 0 /\ it.notifyText \in Range(cache_errors)
    /\ pc = "except IndexError" => it.failedAt = "select"

\* a format failure whose text the cache already held
C9_Witness ==
    /\ pc = "finally"
    /\ it.failedAt = "format"
    /\ it.notifyCalls = 1
    /\ it.errorTried = 0

UndocumentedStatus(record) ==
    Get(record, "status", None) \notin {"approved", "reviewing", "rejected"}

DocumentedStatus(record) ==
    Get(record, "status", None) \in {"approved", "reviewing", "rejected"}

\* the verdict text the table gives for a status
VerdictText(status) ==
    CASE status = "approved" -> "no remarks"
      [] status = "reviewing" -> "under review"
      [] status = "rejected" -> "has remarks"

\* C11 as stated: for any record whose status is in the verdict table the
\* format succeeds
C11_Original ==
    (it.selected # <<>> /\ DocumentedStatus(it.selected[1])) =>
        "format" \in it.done

\* C11: for a record that has a name and whose status is in the verdict
\* table the format succeeds, and the message holds the verdict text of the
\* status, the name, and the comment or else the placeholder
C11_FormatOfDocumentedStatus ==
    (it.selected # <<>> /\ DocumentedStatus(it.selected[1])
     /\ "homework_name" \in DOMAIN it.selected[1]) =>
        /\ "format" \in it.done
        /\ it.failedAt \in {"none", "send"}
        /\ pc = "send_message" =>
            LET record == it.selected[1] IN
            /\ VerdictText(record.status) \in Range(message)
            /\ record.homework_name \in Range(message)
            /\ IF "reviewer_comment" \in DOMAIN record
               THEN record.reviewer_comment \in Range(message)
                    /\ "no comment" \notin Range(message)
               ELSE "no comment" \in Range(message)

\* a rejected homework with a reviewer comment was formatted
C11_Witness ==
    /\ pc = "send_message"
    /\ it.selected = <<[homework_name |-> "X", status |-> "rejected",
                        reviewer_comment |-> "fix it"]>>
    /\ "has remarks" \in Range(message)
    /\ "fix it" \in Range(message)

\* the response of the iteration has been through check_response
Validated == it.failedAt = "validate" \/ "validate" \in it.done

HasKey(resp, key) == key \in DOMAIN resp

HomeworksIsList(resp) ==
    HasKey(resp, "homeworks") /\ resp.homeworks.type = "list"

\* C12 as stated: a mapping fails only if it lacks both keys or its
\* homeworks value is not a list; otherwise the list is returned
C12_Original ==
    (Validated /\ response.json = "object"
     /\ ~(~HasKey(response, "homeworks") /\ ~HasKey(response, "current_date"))
     /\ HomeworksIsList(response)) =>
        "validate" \in it.done

\* C12: check_response raises TypeError for a non-mapping, KeyError for a
\* mapping that lacks one of the two keys or whose homeworks value is not a
\* list, and otherwise returns the homeworks list as it is
C12_CheckResponse ==
    Validated =>
        IF response.json # "object"
        THEN it.failedAt = "validate" /\ it.failure.type = "TypeError"
        ELSE IF /\ HasKey(response, "homeworks")
                /\ HasKey(response, "current_date")
                /\ HomeworksIsList(response)
             THEN /\ "validate" \in it.done
                  /\ homework.type = "list"
                  /\ Len(homework.items) = Len(response.homeworks.items)
                  /\ \A i \in 1..Len(homework.items) :
                        homework.items[i] = response.homeworks.items[i]
             ELSE it.failedAt = "validate" /\ it.failure.type = "KeyError"

\* a list of two records came back in the order of the response
C12_Witness ==
    /\ pc = "parse_status"
    /\ Len(homework.items) = 2
    /\ homework.items[1].homework_name = "X"
    /\ homework.items[2].homework_name = "Y"

\* main() is inside the try block or one of its handlers
InIteration ==
    pc \in {"check_response", "parse_status", "send_message", "advance",
            "except IndexError", "except Exception", "finally"}

\* C13: an iteration issues one GET with the cursor as from_date; on 200 the
\* decoded body is returned, on another status the fetch fails with
\* ApiResponseStatusException carrying the code and returns nothing; the
\* next request comes only in the next iteration, after the sleep
C13_OneRequestPerIteration ==
    /\ it.fetches <= 1
    /\ InIteration =>
        /\ it.fetches = 1
        /\ it.from_date = it.cursor0
        /\ it.reply.net = "ok" =>
            IF it.reply.status_code = HTTP_OK
            THEN it.reply.json = "valid" =>
                    "fetch" \in it.done /\ response = it.reply.body
            ELSE /\ it.failedAt = "fetch"
                 /\ it.failure.type = "ApiResponseStatusException"
                 /\ ToString(it.reply.status_code) \in Range(it.failure.args)
                 /\ response = NoResponse
    /\ (pc = "get_api_answer" /\ iter > 0) => it.fetches = 0 /\ it.sleeps = 1

\* the endpoint answered 404 to the request of the second iteration
C13_Witness ==
    /\ pc = "except Exception"
    /\ iter = 1
    /\ it.reply = [net |-> "ok", status_code |-> 404]
    /\ it.from_date = current_timestamp
    /\ raised.type = "ApiResponseStatusException"

\* C14: when fetch, validation and format succeed the status message is
\* sent once, whatever the cache held, and a failed send reaches the
\* handler of main() as an exception
C14_StatusSendIsUnconditional ==
    /\ it.statusTried <= 1
    /\ "format" \notin it.done => it.statusTried = 0
    /\ (pc \in {"advance", "except Exception", "finally"}
        /\ "format" \in it.done) => it.statusTried = 1
    /\ (it.statusTried = 1 /\ it.statusDelivered = 0) =>
        /\ it.failedAt = "send"
        /\ it.failure # NoException
        /\ "send" \notin it.done
        /\ pc \in {"except Exception", "finally"}
        /\ pc = "except Exception" => raised = it.failure
        /\ pc = "finally" => it.notifyCalls = 1

\* the status was sent in an iteration that began with a text in the cache
C14_Witness ==
    /\ pc = "finally"
    /\ it.cache0 # <<>>
    /\ it.statusTried = 1
    /\ it.statusDelivered = 1

\* the cache as send_error_message found it in this iteration
CacheAtNotify == IF "format" \in it.done THEN <<>> ELSE it.cache0

\* C15: a text enters the cache only when its error notification was
\* delivered; a failed send of an error notification leaves the cache as
\* it was
C15_CacheHoldsDeliveredTexts ==
    /\ []((pc = "finally" /\ it.errorTried = 1 /\ it.errorDelivered = 0) =>
            /\ cache_errors = CacheAtNotify
            /\ it.notifyText \notin Range(cache_errors))
    /\ [][Len(cache_errors') > Len(cache_errors) =>
            /\ it'.errorDelivered = 1
            /\ cache_errors' = Append(cache_errors, it'.notifyText)]_vars

\* the send of an error notification failed while the cache held a text
C15_Witness ==
    /\ pc = "finally"
    /\ it.errorTried = 1
    /\ it.errorDelivered = 0
    /\ cache_errors # <<>>

\* C16: the cache never holds a text twice, every text in it is a formatted
\* failure, and it changes only by the clear of a successful parse_status
\* and the append of send_error_message
C16_CacheIsASetOfFailureTexts ==
    /\ [](NoDuplicates(cache_errors))
    /\ [](\A text \in Range(cache_errors) :
            Len(text) >= 2 /\ text[1] = "program failure: ")
    /\ [][cache_errors' # cache_errors =>
            \/ /\ pc = "parse_status"
               /\ pc' = "send_message"
               /\ cache_errors' = <<>>
            \/ /\ pc = "except Exception"
               /\ pc' = "finally"
               /\ Len(cache_errors') = Len(cache_errors) + 1
               /\ SubSeq(cache_errors', 1, Len(cache_errors)) = cache_errors
         ]_vars

\* three different failures in a row
C16_Witness ==
    Len(cache_errors) = 3

\* C17: an iteration delivers at most one message, and an error
\* notification is attempted only when the status message was not delivered
C17_OneMessagePerIteration ==
    /\ it.statusDelivered + it.errorDelivered <= 1
    /\ it.errorTried > 0 => it.statusDelivered = 0
    /\ it.statusDelivered = 1 => it.notifyCalls = 0

\* the status send failed and the error notification was delivered
C17_Witness ==
    /\ pc = "finally"
    /\ it.statusTried = 1
    /\ it.statusDelivered = 0
    /\ it.errorDelivered = 1

\* C18: the cursor starts one poll interval before the start time, never
\* decreases, never exceeds the clock, and every from_date is the initial
\* cursor or the time the last fully successful iteration completed
C18_CursorIsMonotone ==
    /\ []((pc = "get_api_answer" /\ iter = 0) =>
            current_timestamp = StartTime - TELEGRAM_RETRY_TIME)
    /\ [](pc \notin {"main", "exited"} => current_timestamp <= now)
    /\ [][now' >= now /\ (pc # "main" => current_timestamp' >= current_timestamp)
         ]_vars
    /\ [](it.fetches = 1 =>
            it.from_date = IF it.lastOk = 0
                           THEN StartTime - TELEGRAM_RETRY_TIME
                           ELSE it.lastOk)

\* a fetch after a failed iteration that followed a successful one
C18_Witness ==
    /\ InIteration
    /\ it.lastOk > StartTime - TELEGRAM_RETRY_TIME
    /\ it.prevOutcome = "failed"
    /\ it.from_date = it.lastOk
    /\ now >= it.from_date + 2 * TELEGRAM_RETRY_TIME

====
